---- MODULE Spec2Model ----
(***************************************************************************)
(* SimpleVector<Type> of simple_vector.h over its buffer owner ArrayPtr.   *)
(*                                                                         *)
(* A vector is the record [buf, size, cap]:                                *)
(*   buf   the block simple_vector_ owns, a sequence whose length is the   *)
(*         number of slots allocated (C++ slot i is buf[i+1]);             *)
(*   size  the field size_;                                                *)
(*   cap   the field capacity_.                                            *)
(* The state holds the vector under observation, vec, and the record of    *)
(* the last call, last: its name, the vector before it, its arguments,     *)
(* what it returned, and whether it touched a slot outside an allocated    *)
(* block or called Fill with an empty range.  The second operand of a call *)
(* with two operands (copy and move construction, assignment, swap,        *)
(* comparison) is the vector itself or a temporary built from an           *)
(* initializer list; last keeps it as it was before (arg) and after        *)
(* (other) the call.                                                       *)
(*                                                                         *)
(* Accesses outside a block are undefined behaviour.  A write outside the  *)
(* block does not reach the block; a read outside the block, and a read of *)
(* a slot of a fresh block that was never written, yields any value: the   *)
(* operators take those values as the function g (reads past the end of    *)
(* the block, by slot index) and h (never-written slots, by slot index),   *)
(* and the actions choose them with \E.                                    *)
(***************************************************************************)
EXTENDS Integers, Sequences, FiniteSets

VARIABLES vec, last

vars == <<vec, last>>

\* Largest size_, capacity_ and block explored.
MaxCap == 4

\* Longest initializer list explored.
MaxList == 2

\* Type() for the element type: the value-initialised element.
Default == 0

\* The element values: the default value and another one.
Values == {Default, 1}

Max(a, b) == IF a >= b THEN a ELSE b

Min(a, b) == IF a <= b THEN a ELSE b

\* The possible contents of the slots S that hold indeterminate values.
Garb(S) == [S -> Values]

SimpleVector(b, s, c) == [buf |-> b, size |-> s, cap |-> c]

GetSize(v) == v.size

GetCapacity(v) == v.cap

\* The number of slots of the block the vector owns.
Alloc(v) == Len(v.buf)

(***************************************************************************)
(* ArrayPtr                                                                *)
(***************************************************************************)

\* ArrayPtr(n): a fresh block of exactly n slots, whose values are
\* indeterminate until written. h gives the value of every slot that is read
\* or kept before it is written; the slots outside DOMAIN h are those the
\* caller overwrites first.
ArrayPtr(n, h) == [k \in 1..n |-> IF (k - 1) \in DOMAIN h THEN h[k - 1] ELSE Default]

\* Read of slot i: past the end of the block it yields g[i].
Get(buf, i, g) == IF i < Len(buf) THEN buf[i + 1] ELSE g[i]

\* Write of slot i: past the end of the block it does not reach the block.
Put(buf, i, x) == IF i < Len(buf) THEN [buf EXCEPT ![i + 1] = x] ELSE buf

\* std::fill(first, first + n, x) over a whole block of n slots.
FillAll(n, x) == [k \in 1..n |-> x]

\* std::copy / std::move(src + 0, src + n, dst + 0) between two blocks.
CopyTo(src, n, dst, g) ==
    [k \in 1..Len(dst) |-> IF k - 1 < n THEN Get(src, k - 1, g) ELSE dst[k]]

\* The slots of src that CopyTo reads past the end of src and stores in dst.
CopyNeed(src, n, dstLen) == {i \in 0..(Min(n, dstLen) - 1) : i >= Len(src)}

(***************************************************************************)
(* Fill                                                                    *)
(***************************************************************************)

\* Fill(first, last) with first = block + lo and last = block + hi: every
\* slot of [lo, hi) gets Type().
Fill(buf, lo, hi) ==
    [k \in 1..Len(buf) |-> IF lo <= k - 1 /\ k - 1 < hi THEN Default ELSE buf[k]]

\* The assertion of Fill, first < last.
FillAssert(lo, hi) == lo < hi

(***************************************************************************)
(* Constructors                                                            *)
(***************************************************************************)

\* SimpleVector() noexcept = default
DefaultCtor == SimpleVector(<<>>, 0, 0)

\* SimpleVector(size_t size, const Type& value)
SizedCtor(n, value) == SimpleVector(FillAll(n, value), n, n)

\* SimpleVector(std::initializer_list<Type> init)
ListCtor(init) == SimpleVector(init, Len(init), Len(init))

\* SimpleVector(const SimpleVector& other): a block of other.capacity_ slots,
\* size_ from other, capacity_ left at its default member initialiser 0.
CopyCtor(other, g, h) ==
    SimpleVector(CopyTo(other.buf, other.size, ArrayPtr(other.cap, h), g),
                 other.size, 0)

CopyCtorNeedG(other) == CopyNeed(other.buf, other.size, other.cap)

CopyCtorNeedH(other) == other.size..(other.cap - 1)

CopyCtorOob(other) == other.size > Alloc(other) \/ other.size > other.cap

\* The move constructor exchanging the block and size_ but not capacity_.
MoveCtorKeepCapacity(other, h) ==
    <<SimpleVector(other.buf, other.size, 0),
      SimpleVector(ArrayPtr(other.cap, h), 0, other.cap)>>

\* SimpleVector(SimpleVector&& other): this object starts with a block of
\* other.capacity_ slots, size_ 0 and capacity_ 0, and swaps with other.
\* The pair is <<this object, other>> after the call.
MoveCtor(other, h) == <<other, SimpleVector(ArrayPtr(other.cap, h), 0, 0)>>

MoveCtorNeedH(other) == 0..(other.cap - 1)

(***************************************************************************)
(* Reserve, Resize                                                         *)
(***************************************************************************)

\* Reserve(new_capacity)
Reserve(v, n, g) ==
    IF n > v.cap
    THEN SimpleVector(CopyTo(v.buf, v.size, FillAll(n, Default), g), v.size, n)
    ELSE v

ReserveNeedG(v, n) == IF n > v.cap THEN CopyNeed(v.buf, v.size, n) ELSE {}

ReserveOob(v, n) == n > v.cap /\ (v.size > Alloc(v) \/ v.size > n)

\* The reservation request taken for a size: c elements, not c slots.
ReserveCtorAsSized(c) == SizedCtor(c, Default)

\* SimpleVector(const ReserveFunc obj)
ReserveCtor(c) == Reserve(DefaultCtor, c, <<>>)

\* size_ after the first statement of Resize.
ResizeShrink(v, n) == IF n <= v.size THEN n ELSE v.size

\* Resize(new_size): three consecutive if statements.
Resize(v, n, g) ==
    LET s1 == ResizeShrink(v, n)
    IN  IF n <= v.cap
        THEN SimpleVector(Fill(v.buf, s1, s1 + n), s1, v.cap)
        ELSE LET new_capacity == Max(n, v.cap * 2)
                 temp == CopyTo(v.buf, v.cap, Fill(ArrayPtr(new_capacity, <<>>), 0, new_capacity), g)
             IN  SimpleVector(temp, n, new_capacity)

ResizeNeedG(v, n) ==
    IF n > v.cap THEN CopyNeed(v.buf, v.cap, Max(n, v.cap * 2)) ELSE {}

ResizeOob(v, n) ==
    IF n <= v.cap
    THEN n > 0 /\ ResizeShrink(v, n) + n > Alloc(v)
    ELSE v.cap > Alloc(v)

\* Whether Resize calls Fill with a range that fails Fill's assertion.
ResizeFillBad(v, n) ==
    n <= v.cap /\ ~FillAssert(ResizeShrink(v, n), ResizeShrink(v, n) + n)

(***************************************************************************)
(* PushBack, Insert, PopBack, Erase, Clear                                 *)
(***************************************************************************)

\* PushBack(const Type& item)
PushBack(v, item, g) ==
    IF v.size + 1 > v.cap
    THEN LET new_capacity == Max(v.size + 1, v.cap * 2)
             temp == CopyTo(v.buf, v.size, FillAll(new_capacity, Default), g)
         IN  SimpleVector(Put(temp, v.size, item), v.size + 1, new_capacity)
    ELSE SimpleVector(Put(v.buf, v.size, item), v.size + 1, v.cap)

\* PushBack(Type&& item): the fresh block is not filled.
PushBackMove(v, item, g, h) ==
    IF v.size + 1 > v.cap
    THEN LET new_capacity == Max(v.size + 1, v.cap * 2)
             temp == CopyTo(v.buf, v.size, ArrayPtr(new_capacity, h), g)
         IN  SimpleVector(Put(temp, v.size, item), v.size + 1, new_capacity)
    ELSE SimpleVector(Put(v.buf, v.size, item), v.size + 1, v.cap)

PushBackNeedG(v) ==
    IF v.size + 1 > v.cap
    THEN CopyNeed(v.buf, v.size, Max(v.size + 1, v.cap * 2))
    ELSE {}

PushBackMoveNeedH(v) ==
    IF v.size + 1 > v.cap
    THEN (v.size + 1)..(Max(v.size + 1, v.cap * 2) - 1)
    ELSE {}

PushBackOob(v) ==
    IF v.size + 1 > v.cap THEN v.size > Alloc(v) ELSE v.size >= Alloc(v)

\* std::copy_backward(block + count, block + size_, block + size_ + 1)
\* within one block.
CopyBackward(buf, count, size) ==
    [k \in 1..Len(buf) |->
        IF count < k - 1 /\ k - 1 <= size THEN buf[k - 1] ELSE buf[k]]

\* Insert(pos, value) with count = pos - begin(); the overload taking
\* Type&& runs the same statements with std::move and std::move_backward.
Insert(v, count, value, g, h) ==
    IF v.cap = 0
    THEN SimpleVector(Put(ArrayPtr(1, h), count, value), v.size + 1, 1)
    ELSE IF v.size < v.cap
    THEN SimpleVector(Put(CopyBackward(v.buf, count, v.size), count, value),
                      v.size + 1, v.cap)
    ELSE LET new_capacity == Max(v.size + 1, v.cap * 2)
             temp0 == ArrayPtr(v.cap, <<>>)
             temp1 == CopyTo(v.buf, v.size, temp0, g)
             temp2 == [k \in 1..Len(temp1) |->
                          IF count < k - 1 /\ k - 1 <= v.size
                          THEN Get(v.buf, k - 2, g)
                          ELSE temp1[k]]
         IN  SimpleVector(Put(temp2, count, value), v.size + 1, new_capacity)

InsertNeedG(v) ==
    IF v.cap > 0 /\ v.size >= v.cap THEN CopyNeed(v.buf, v.size, v.cap) ELSE {}

InsertNeedH(v, count) == IF v.cap = 0 /\ count > 0 THEN {0} ELSE {}

InsertOob(v, count) ==
    IF v.cap = 0 THEN count > 0
    ELSE IF v.size < v.cap THEN v.size >= Alloc(v)
    ELSE TRUE

\* PopBack()
PopBack(v) == SimpleVector(v.buf, v.size - 1, v.cap)

\* Erase(pos) with count = pos - begin().
Erase(v, count, g) ==
    SimpleVector([k \in 1..Len(v.buf) |->
                     IF count <= k - 1 /\ k - 1 < v.size - 1
                     THEN Get(v.buf, k, g)
                     ELSE v.buf[k]],
                 v.size - 1, v.cap)

EraseNeedG(v, count) ==
    {i \in {Alloc(v)} : i >= 1 /\ count <= i - 1 /\ i < v.size}

EraseOob(v, count) == count + 1 < v.size /\ v.size - 1 >= Alloc(v)

\* Clear()
Clear(v) == SimpleVector(v.buf, 0, v.cap)

(***************************************************************************)
(* At                                                                      *)
(***************************************************************************)

\* At(index) with the bound checked one too far: index > size_.
AtLateThrow(v, index, g) ==
    IF index > v.size
    THEN [threw |-> TRUE, slot |-> 0, value |-> Default]
    ELSE [threw |-> FALSE, slot |-> index, value |-> Get(v.buf, index, g)]

\* At(index), both overloads: throws std::out_of_range if index >= size_,
\* and returns a reference to slot index otherwise; value is what is read
\* through the reference.
At(v, index, g) ==
    IF index >= v.size
    THEN [threw |-> TRUE, slot |-> 0, value |-> Default]
    ELSE [threw |-> FALSE, slot |-> index, value |-> Get(v.buf, index, g)]

\* The slot read through the reference when it lies outside the block.
AtNeedG(v, index) == {i \in {index} : i >= Alloc(v)}

(***************************************************************************)
(* Comparison                                                              *)
(***************************************************************************)

\* operator==: std::equal(lhs.begin(), lhs.end(), rhs.begin()).
Equal(lhs, rhs, gl, gr) ==
    \A i \in 0..(lhs.size - 1) : Get(lhs.buf, i, gl) = Get(rhs.buf, i, gr)

\* The slots std::equal reads past the end of a block.
EqualNeedG(v, n) == {i \in 0..(n - 1) : i >= Alloc(v)}

\* operator!=
NotEqual(lhs, rhs, gl, gr) == ~Equal(lhs, rhs, gl, gr)

\* std::lexicographical_compare from index i on: the first index where the
\* elements differ decides; when a range ends first, lhs is less iff it is
\* the one that ended and rhs has not.
RECURSIVE LessFrom(_, _, _, _, _)
LessFrom(lhs, rhs, gl, gr, i) ==
    IF i >= lhs.size \/ i >= rhs.size
    THEN i >= lhs.size /\ i < rhs.size
    ELSE LET a == Get(lhs.buf, i, gl)
             b == Get(rhs.buf, i, gr)
         IN  IF a < b THEN TRUE
             ELSE IF b < a THEN FALSE
             ELSE LessFrom(lhs, rhs, gl, gr, i + 1)

\* operator<
Less(lhs, rhs, gl, gr) == LessFrom(lhs, rhs, gl, gr, 0)

\* operator<=
LessEqual(lhs, rhs, gl, gr) == ~Less(rhs, lhs, gr, gl)

\* operator>
Greater(lhs, rhs, gl, gr) == Less(rhs, lhs, gr, gl)

\* operator>=
GreaterEqual(lhs, rhs, gl, gr) == ~Less(lhs, rhs, gl, gr)

\* The slots std::lexicographical_compare can read past the end of v's
\* block: it compares at most the shorter range.
LessNeedG(v, lhs, rhs) == EqualNeedG(v, Min(lhs.size, rhs.size))

\* Whether std::lexicographical_compare reads past the end of a block: it
\* does when the ranges agree on every slot before the first such index.
RECURSIVE LessOob(_, _, _)
LessOob(lhs, rhs, i) ==
    IF i >= lhs.size \/ i >= rhs.size THEN FALSE
    ELSE IF i >= Alloc(lhs) \/ i >= Alloc(rhs) THEN TRUE
    ELSE IF lhs.buf[i + 1] # rhs.buf[i + 1] THEN FALSE
    ELSE LessOob(lhs, rhs, i + 1)

\* swap(other): the pair is <<this object, other>> after the call.
swap(v, other) == <<other, v>>

\* operator=(rhs) on distinct objects: helper is a copy of rhs, and the
\* swap leaves this object with helper's block and fields.
Assign(v, rhs, g, h) == swap(v, CopyCtor(rhs, g, h))[1]

(***************************************************************************)
(* The state machine                                                       *)
(***************************************************************************)

\* The sequences of at most n values.
SeqUpTo(n) == UNION {[1..k -> Values] : k \in 0..n}

\* The temporaries used as second operands: SimpleVector<Type>{...}.
Temps == {ListCtor(init) : init \in SeqUpTo(MaxList)}

\* The record of a call: op, on the vector pre (DefaultCtor for a
\* constructor from values, which has no vector before it), with second
\* operand arg, left as other by the call; p is the position or size
\* argument, val the value argument, ret the position an iterator result
\* refers to, res a boolean result, oob whether the call touched a slot
\* outside an allocated block, fillBad whether it called Fill with a range
\* that fails Fill's assertion, threw whether it threw an exception. For a
\* Resize that follows a Resize directly, chained is TRUE, and first and
\* firstP are the vector before the earlier call and its argument. For a
\* PushBack on a vector that was just moved from, chained is TRUE and first
\* is the vector that took its contents. While the calls so far are a
\* construction from a reservation request and at most one PushBack more
\* than it asked slots for, run is TRUE, runCap is the capacity requested
\* and runLen the number of PushBack calls.
Call(op, pre, arg, other, p, val, ret, res, oob, fillBad) ==
    [op |-> op, pre |-> pre, arg |-> arg, other |-> other, p |-> p,
     val |-> val, ret |-> ret, res |-> res, oob |-> oob, fillBad |-> fillBad,
     threw |-> FALSE, chained |-> FALSE, first |-> DefaultCtor, firstP |-> 0,
     run |-> FALSE, runCap |-> 0, runLen |-> 0]

\* A call on vec alone.
Call1(op, p, val, ret, oob, fillBad) ==
    Call(op, vec, DefaultCtor, DefaultCtor, p, val, ret, FALSE, oob, fillBad)

\* A constructor from values.
Ctor(op, p, val) ==
    Call(op, DefaultCtor, DefaultCtor, DefaultCtor, p, val, 0, FALSE, FALSE, FALSE)

\* The sizes explored.
InBounds(v) == v.size <= MaxCap /\ v.cap <= MaxCap /\ Alloc(v) <= MaxCap

Init ==
    /\ vec = DefaultCtor
    /\ last = Ctor("DefaultCtor", 0, Default)

OpDefaultCtor ==
    /\ vec' = DefaultCtor
    /\ last' = Ctor("DefaultCtor", 0, Default)

\* SimpleVector(size): delegates to SimpleVector(size, Type()).
OpSizedCtor ==
    \E n \in 0..MaxCap :
        /\ vec' = SizedCtor(n, Default)
        /\ last' = Ctor("SizedCtor", n, Default)

OpSizedValueCtor ==
    \E n \in 0..MaxCap, value \in Values :
        /\ vec' = SizedCtor(n, value)
        /\ last' = Ctor("SizedValueCtor", n, value)

OpListCtor ==
    \E init \in SeqUpTo(MaxList) :
        /\ vec' = ListCtor(init)
        /\ last' = Ctor("ListCtor", Len(init), Default)

OpReserveCtor ==
    \E c \in 0..MaxCap :
        /\ vec' = ReserveCtor(c)
        /\ last' = [Ctor("ReserveCtor", c, Default)
                        EXCEPT !.run = TRUE, !.runCap = c]

\* A copy of vec is constructed and becomes the vector under observation.
OpCopyCtor ==
    \E g \in Garb(CopyCtorNeedG(vec)), h \in Garb(CopyCtorNeedH(vec)) :
        /\ vec' = CopyCtor(vec, g, h)
        /\ last' = Call("CopyCtor", DefaultCtor, vec, vec, 0, Default, 0, FALSE,
                        CopyCtorOob(vec), FALSE)

\* A vector is move-constructed from vec; either the new vector (keep) or
\* the moved-from vec becomes the vector under observation.
OpMoveCtor ==
    \E h \in Garb(MoveCtorNeedH(vec)), keep \in BOOLEAN :
        /\ vec' = IF keep THEN MoveCtor(vec, h)[1] ELSE MoveCtor(vec, h)[2]
        /\ last' = Call(IF keep THEN "MoveCtor" ELSE "MovedFrom", DefaultCtor, vec,
                        IF keep THEN MoveCtor(vec, h)[2] ELSE MoveCtor(vec, h)[1],
                        0, Default, 0, FALSE, FALSE, FALSE)

\* vec = vec: operator= does nothing when rhs is the object itself.
OpSelfAssign ==
    /\ vec' = vec
    /\ last' = Call("SelfAssign", vec, vec, vec, 0, Default, 0, FALSE, FALSE, FALSE)

\* vec = rhs with rhs a temporary.
OpAssign ==
    \E rhs \in Temps :
        \E g \in Garb(CopyCtorNeedG(rhs)), h \in Garb(CopyCtorNeedH(rhs)) :
            /\ vec' = Assign(vec, rhs, g, h)
            /\ last' = Call("Assign", vec, rhs, rhs, 0, Default, 0, FALSE,
                            CopyCtorOob(rhs), FALSE)

\* lhs = vec with lhs a vector built from an initializer list, which becomes
\* the vector under observation.
OpAssignFrom ==
    \E lhs \in Temps :
        \E g \in Garb(CopyCtorNeedG(vec)), h \in Garb(CopyCtorNeedH(vec)) :
            /\ vec' = Assign(lhs, vec, g, h)
            /\ last' = Call("AssignFrom", lhs, vec, vec, 0, Default, 0, FALSE,
                            CopyCtorOob(vec), FALSE)

\* vec.swap(other) with other a vector built from an initializer list.
OpSwap ==
    \E other \in Temps :
        /\ vec' = swap(vec, other)[1]
        /\ last' = Call("swap", vec, other, swap(vec, other)[2], 0, Default, 0,
                        FALSE, FALSE, FALSE)

OpClear ==
    /\ vec' = Clear(vec)
    /\ last' = Call1("Clear", 0, Default, 0, FALSE, FALSE)

OpResize ==
    \E n \in 0..MaxCap :
        \E g \in Garb(ResizeNeedG(vec, n)) :
            /\ vec' = Resize(vec, n, g)
            /\ last' = [Call1("Resize", n, Default, 0, ResizeOob(vec, n),
                                ResizeFillBad(vec, n))
                            EXCEPT !.chained = (last.op = "Resize"),
                                   !.first = IF last.op = "Resize" THEN last.pre
                                             ELSE DefaultCtor,
                                   !.firstP = IF last.op = "Resize" THEN last.p
                                              ELSE 0]
            /\ InBounds(vec')

OpReserve ==
    \E n \in 0..MaxCap :
        \E g \in Garb(ReserveNeedG(vec, n)) :
            /\ vec' = Reserve(vec, n, g)
            /\ last' = Call1("Reserve", n, Default, 0, ReserveOob(vec, n), FALSE)

\* Whether a PushBack now continues the run after a reservation request.
InRun == last.run /\ last.runLen <= last.runCap

OpPushBack ==
    \E item \in Values :
        \E g \in Garb(PushBackNeedG(vec)) :
            /\ vec' = PushBack(vec, item, g)
            /\ last' = [Call1("PushBack", 0, item, 0, PushBackOob(vec), FALSE)
                            EXCEPT !.chained = (last.op = "MovedFrom"),
                                   !.first = IF last.op = "MovedFrom"
                                             THEN last.other ELSE DefaultCtor,
                                   !.run = InRun,
                                   !.runCap = IF InRun THEN last.runCap ELSE 0,
                                   !.runLen = IF InRun THEN last.runLen + 1 ELSE 0]
            /\ InBounds(vec')

OpPushBackMove ==
    \E item \in Values :
        \E g \in Garb(PushBackNeedG(vec)), h \in Garb(PushBackMoveNeedH(vec)) :
            /\ vec' = PushBackMove(vec, item, g, h)
            /\ last' = [Call1("PushBackMove", 0, item, 0, PushBackOob(vec), FALSE)
                            EXCEPT !.chained = (last.op = "MovedFrom"),
                                   !.first = IF last.op = "MovedFrom"
                                             THEN last.other ELSE DefaultCtor,
                                   !.run = InRun,
                                   !.runCap = IF InRun THEN last.runCap ELSE 0,
                                   !.runLen = IF InRun THEN last.runLen + 1 ELSE 0]
            /\ InBounds(vec')

\* Insert: the precondition is begin() <= pos <= end().
OpInsert ==
    \E count \in 0..vec.size, value \in Values :
        \E g \in Garb(InsertNeedG(vec)), h \in Garb(InsertNeedH(vec, count)) :
            /\ vec' = Insert(vec, count, value, g, h)
            /\ last' = Call1("Insert", count, value, count, InsertOob(vec, count),
                             FALSE)
            /\ InBounds(vec')

\* PopBack: the precondition is a non-empty vector.
OpPopBack ==
    /\ vec.size > 0
    /\ vec' = PopBack(vec)
    /\ last' = Call1("PopBack", 0, Default, 0, FALSE, FALSE)

\* Erase: the precondition is begin() <= pos < end().
OpErase ==
    \E count \in 0..(vec.size - 1) :
        \E g \in Garb(EraseNeedG(vec, count)) :
            /\ vec' = Erase(vec, count, g)
            /\ last' = Call1("Erase", count, Default, count, EraseOob(vec, count),
                             FALSE)

\* At(index): last.p is index, last.ret the slot the reference returned
\* refers to, last.val the value read through it.
OpAt ==
    \E index \in 0..MaxCap :
        \E g \in Garb(AtNeedG(vec, index)) :
            /\ vec' = vec
            /\ last' = [Call1("At", index, At(vec, index, g).value,
                               At(vec, index, g).slot, FALSE, FALSE)
                            EXCEPT !.threw = At(vec, index, g).threw]

\* The pairs compared: vec with itself, and vec with a temporary on either
\* side.
Pairs == {<<vec, vec>>} \cup {<<vec, t>> : t \in Temps} \cup {<<t, vec>> : t \in Temps}

\* lhs == rhs; last.pre is lhs and last.arg is rhs.
OpEqual ==
    \E pair \in Pairs :
        LET lhs == pair[1]
            rhs == pair[2]
        IN  \E gl \in Garb(EqualNeedG(lhs, lhs.size)),
               gr \in Garb(EqualNeedG(rhs, lhs.size)) :
                /\ vec' = vec
                /\ last' = Call("Equal", lhs, rhs, rhs, 0, Default, 0,
                                Equal(lhs, rhs, gl, gr),
                                EqualNeedG(lhs, lhs.size) # {}
                                    \/ EqualNeedG(rhs, lhs.size) # {},
                                FALSE)

\* lhs != rhs; last.pre is lhs and last.arg is rhs.
OpNotEqual ==
    \E pair \in Pairs :
        LET lhs == pair[1]
            rhs == pair[2]
        IN  \E gl \in Garb(EqualNeedG(lhs, lhs.size)),
               gr \in Garb(EqualNeedG(rhs, lhs.size)) :
                /\ vec' = vec
                /\ last' = Call("NotEqual", lhs, rhs, rhs, 0, Default, 0,
                                NotEqual(lhs, rhs, gl, gr),
                                EqualNeedG(lhs, lhs.size) # {}
                                    \/ EqualNeedG(rhs, lhs.size) # {},
                                FALSE)

\* lhs < rhs; last.pre is lhs and last.arg is rhs.
OpLess ==
    \E pair \in Pairs :
        LET lhs == pair[1]
            rhs == pair[2]
        IN  \E gl \in Garb(LessNeedG(lhs, lhs, rhs)),
               gr \in Garb(LessNeedG(rhs, lhs, rhs)) :
                /\ vec' = vec
                /\ last' = Call("Less", lhs, rhs, rhs, 0, Default, 0,
                                Less(lhs, rhs, gl, gr),
                                LessOob(lhs, rhs, 0), FALSE)

\* lhs <= rhs; last.pre is lhs and last.arg is rhs.
OpLessEqual ==
    \E pair \in Pairs :
        LET lhs == pair[1]
            rhs == pair[2]
        IN  \E gl \in Garb(LessNeedG(lhs, lhs, rhs)),
               gr \in Garb(LessNeedG(rhs, lhs, rhs)) :
                /\ vec' = vec
                /\ last' = Call("LessEqual", lhs, rhs, rhs, 0, Default, 0,
                                LessEqual(lhs, rhs, gl, gr),
                                LessOob(lhs, rhs, 0), FALSE)

\* lhs > rhs; last.pre is lhs and last.arg is rhs.
OpGreater ==
    \E pair \in Pairs :
        LET lhs == pair[1]
            rhs == pair[2]
        IN  \E gl \in Garb(LessNeedG(lhs, lhs, rhs)),
               gr \in Garb(LessNeedG(rhs, lhs, rhs)) :
                /\ vec' = vec
                /\ last' = Call("Greater", lhs, rhs, rhs, 0, Default, 0,
                                Greater(lhs, rhs, gl, gr),
                                LessOob(lhs, rhs, 0), FALSE)

\* lhs >= rhs; last.pre is lhs and last.arg is rhs.
OpGreaterEqual ==
    \E pair \in Pairs :
        LET lhs == pair[1]
            rhs == pair[2]
        IN  \E gl \in Garb(LessNeedG(lhs, lhs, rhs)),
               gr \in Garb(LessNeedG(rhs, lhs, rhs)) :
                /\ vec' = vec
                /\ last' = Call("GreaterEqual", lhs, rhs, rhs, 0, Default, 0,
                                GreaterEqual(lhs, rhs, gl, gr),
                                LessOob(lhs, rhs, 0), FALSE)

Next ==
    \/ OpDefaultCtor
    \/ OpSizedCtor
    \/ OpSizedValueCtor
    \/ OpListCtor
    \/ OpReserveCtor
    \/ OpCopyCtor
    \/ OpMoveCtor
    \/ OpSelfAssign
    \/ OpAssign
    \/ OpAssignFrom
    \/ OpSwap
    \/ OpClear
    \/ OpResize
    \/ OpReserve
    \/ OpPushBack
    \/ OpPushBackMove
    \/ OpInsert
    \/ OpPopBack
    \/ OpErase
    \/ OpAt
    \/ OpEqual
    \/ OpNotEqual
    \/ OpLess
    \/ OpLessEqual
    \/ OpGreater
    \/ OpGreaterEqual

Spec == Init /\ [][Next]_vars

(***************************************************************************)
(* The claims                                                              *)
(***************************************************************************)

\* The value no element has: what a slot outside the block stands for.
Undef == Default - 1

\* Element i of a vector: the slot i of its block, if the block has one.
Elem(v, i) == IF i < Alloc(v) THEN v.buf[i + 1] ELSE Undef

\* Every live index is a slot of the block.
Readable(v) == v.size <= Alloc(v)

\* The fields agree with the block: size_ <= capacity_ = slots allocated.
WellFormed(v) == v.size <= v.cap /\ v.cap = Alloc(v)

\* Elements [lo, hi) of w are elements [lo, hi) of v, all of them slots.
SameElems(v, w, lo, hi) ==
    \A i \in lo..(hi - 1) : Elem(w, i) # Undef /\ Elem(w, i) = Elem(v, i)

\* C1: after every operation, GetSize() <= GetCapacity().
C1_SizeWithinCapacity == GetSize(vec) <= GetCapacity(vec)

\* C2: after every operation, GetCapacity() is the number of slots of the
\* block the vector owns; after move construction this holds of both objects.
C2_CapacityMirrorsBlock ==
    /\ GetCapacity(vec) = Alloc(vec)
    /\ last.op \in {"MoveCtor", "MovedFrom"} =>
           GetCapacity(last.other) = Alloc(last.other)

\* C3: Insert(p, value) into a vector of length n with 0 <= p <= n gives
\* length n + 1, elements [0, p) unchanged, value at p, the former elements
\* p..n-1 at p+1..n, and returns position p; whatever the capacity was.
C3_InsertPlacesValue ==
    (last.op = "Insert" /\ Readable(last.pre)) =>
        /\ vec.size = last.pre.size + 1
        /\ SameElems(last.pre, vec, 0, last.p)
        /\ Elem(vec, last.p) = last.val
        /\ \A i \in last.p..(last.pre.size - 1) :
               Elem(vec, i + 1) = Elem(last.pre, i)
        /\ last.ret = last.p

\* C4: Resize(new_size) with L < new_size <= C sets the length to new_size,
\* fills exactly the slots [L, new_size) with the default value, leaves
\* elements [0, L) unchanged and neither changes the capacity nor
\* reallocates.
C4_ResizeWithinCapacity ==
    (/\ last.op = "Resize"
     /\ WellFormed(last.pre)
     /\ last.pre.size < last.p
     /\ last.p <= last.pre.cap) =>
        /\ vec.size = last.p
        /\ vec.cap = last.pre.cap
        /\ Alloc(vec) = Alloc(last.pre)
        /\ \A i \in 0..(Alloc(vec) - 1) :
               Elem(vec, i) = IF last.pre.size <= i /\ i < last.p
                              THEN Default
                              ELSE Elem(last.pre, i)

\* Equality of two vectors by value: equal length and equal elements.
SameValue(a, b) == a.size = b.size /\ SameElems(a, b, 0, a.size)

\* C5: a == b iff a and b have equal length and equal elements at every
\* index; a != b is the negation.
C5_EqualityByValue ==
    (/\ last.op \in {"Equal", "NotEqual"}
     /\ WellFormed(last.pre)
     /\ WellFormed(last.arg)) =>
        last.res = IF last.op = "Equal"
                   THEN SameValue(last.pre, last.arg)
                   ELSE ~SameValue(last.pre, last.arg)

\* C6: Resize(new_size) with new_size > C sets the capacity to
\* max(new_size, 2 * C) and the length to new_size, keeps elements [0, L)
\* and makes every element of [L, new_size) the default value, whatever the
\* slots [L, C) held.
C6_ResizeBeyondCapacity ==
    (/\ last.op = "Resize"
     /\ WellFormed(last.pre)
     /\ last.p > last.pre.cap) =>
        /\ vec.cap = Max(last.p, 2 * last.pre.cap)
        /\ vec.size = last.p
        /\ SameElems(last.pre, vec, 0, last.pre.size)
        /\ \A i \in last.pre.size..(last.p - 1) : Elem(vec, i) = Default

\* C7: Resize(new_size) with new_size <= L sets the length to new_size and
\* changes neither the capacity nor any slot of the block.
C7_ResizeShrinkKeepsSlots ==
    (/\ last.op = "Resize"
     /\ WellFormed(last.pre)
     /\ last.p <= last.pre.size) =>
        /\ vec.size = last.p
        /\ vec.cap = last.pre.cap
        /\ vec.buf = last.pre.buf

\* C8: Resize(k) and then Resize(m) with k <= n and k <= m <= c leave a
\* vector of length m whose elements [0, k) are the original ones and whose
\* elements [k, m) are the default value, with capacity c.
C8_ResizeDownThenUp ==
    (/\ last.op = "Resize"
     /\ last.chained
     /\ WellFormed(last.first)
     /\ last.firstP <= last.first.size
     /\ last.firstP <= last.p
     /\ last.p <= last.first.cap) =>
        /\ vec.size = last.p
        /\ vec.cap = last.first.cap
        /\ SameElems(last.first, vec, 0, last.firstP)
        /\ \A i \in last.firstP..(last.p - 1) : Elem(vec, i) = Default

\* C9: Erase(p) on a vector of length n >= 1 with 0 <= p < n gives length
\* n - 1, elements [0, p) unchanged, the former elements p+1..n-1 at
\* p..n-2, the capacity unchanged, and returns position p.
C9_EraseShiftsLeft ==
    last.op = "Erase" =>
        /\ vec.size = last.pre.size - 1
        /\ vec.cap = last.pre.cap
        /\ SameElems(last.pre, vec, 0, last.p)
        /\ \A i \in last.p..(vec.size - 1) :
               Elem(vec, i) # Undef /\ Elem(vec, i) = Elem(last.pre, i + 1)
        /\ last.ret = last.p

\* C10: PushBack(value) on a vector of length n gives length n + 1, elements
\* [0, n) unchanged and value at index n, whether or not it reallocates.
C10_PushBackAppends ==
    (last.op \in {"PushBack", "PushBackMove"} /\ Readable(last.pre)) =>
        /\ vec.size = last.pre.size + 1
        /\ SameElems(last.pre, vec, 0, last.pre.size)
        /\ Elem(vec, last.pre.size) = last.val

\* C11: PushBack and Insert on a vector of length L and capacity C leave the
\* capacity max(L + 1, 2 * C) if L + 1 > C, and C otherwise.
C11_GrowthPolicy ==
    last.op \in {"PushBack", "PushBackMove", "Insert"} =>
        GetCapacity(vec) = IF last.pre.size + 1 > last.pre.cap
                           THEN Max(last.pre.size + 1, 2 * last.pre.cap)
                           ELSE last.pre.cap

\* C12: Reserve(k) changes nothing if k <= C; if k > C the capacity becomes
\* k and the length and the elements [0, L) stay. The capacity never
\* decreases.
C12_ReserveKeepsElements ==
    (last.op = "Reserve" /\ Readable(last.pre)) =>
        /\ last.p <= last.pre.cap => vec = last.pre
        /\ last.p > last.pre.cap =>
               /\ vec.cap = last.p
               /\ vec.size = last.pre.size
               /\ SameElems(last.pre, vec, 0, last.pre.size)
        /\ vec.cap >= last.pre.cap

\* C13: At(index) throws iff index >= L; otherwise it returns the element at
\* index. Either way the vector is unchanged. No other operation throws.
C13_AtChecksIndex ==
    /\ last.threw => last.op = "At"
    /\ last.op = "At" =>
           /\ last.threw <=> last.p >= last.pre.size
           /\ ~last.threw =>
                  /\ last.ret = last.p
                  /\ last.p < Alloc(last.pre) => last.val = Elem(last.pre, last.p)
           /\ vec = last.pre

\* C13, witness: At was called with index = L on a vector of length L >= 2,
\* and threw.
C13_Witness ==
    last.op = "At" /\ last.threw /\ last.p = last.pre.size /\ last.pre.size >= 2

\* C14: right after copy construction the copy has the length of the
\* original and the same element at every index, and the original is as it
\* was.
C14_CopyHasSameElements ==
    (last.op = "CopyCtor" /\ Readable(last.arg)) =>
        /\ vec.size = last.arg.size
        /\ SameElems(last.arg, vec, 0, last.arg.size)
        /\ last.other = last.arg

\* C15: after move construction of B from A, B has the length, capacity and
\* elements A had; A has length <= capacity, and a PushBack on A then gives
\* a vector of length 1 holding the value pushed.
C15_MoveTakesContents ==
    /\ last.op = "MoveCtor" =>
           /\ vec = last.arg
           /\ GetSize(last.other) <= GetCapacity(last.other)
    /\ last.op = "MovedFrom" =>
           /\ last.other = last.arg
           /\ GetSize(vec) <= GetCapacity(vec)
    /\ (last.op \in {"PushBack", "PushBackMove"} /\ last.chained) =>
           /\ vec.size = 1
           /\ Elem(vec, 0) = last.val
           /\ GetSize(vec) <= GetCapacity(vec)

\* C15, witness: a vector of two elements was moved from, and then a value
\* other than the default was pushed onto it.
C15_Witness ==
    /\ last.op = "PushBack"
    /\ last.chained
    /\ last.first.size = 2
    /\ last.val # Default

\* C16: a = a leaves a unchanged; a = b with another vector b leaves a with
\* the length and the elements of b, and b unchanged.
C16_AssignCopies ==
    /\ last.op = "SelfAssign" => vec = last.pre
    /\ (last.op \in {"Assign", "AssignFrom"} /\ Readable(last.arg)) =>
           /\ vec.size = last.arg.size
           /\ SameElems(last.arg, vec, 0, last.arg.size)
           /\ last.other = last.arg

\* C17: a vector constructed from a reservation request for c slots has
\* length 0 and capacity c; each of the next c PushBack calls leaves the
\* capacity c, and the one after them raises it to at least c + 1.
C17_ReservedThenAppended ==
    last.run =>
        /\ vec.size = last.runLen
        /\ last.runLen <= last.runCap => /\ vec.cap = last.runCap
                                          /\ Alloc(vec) = last.runCap
        /\ last.runLen = last.runCap + 1 => vec.cap >= last.runCap + 1

\* C17, witness: two slots were reserved and three values pushed.
C17_Witness == last.run /\ last.runCap = 2 /\ last.runLen = 3

\* Whether v and w hold the same values at the indices below k.
SameValueUpTo(v, w, k) == \A i \in 0..(k - 1) : Elem(v, i) = Elem(w, i)

\* The lexicographic order of the live elements: v is less than w iff at
\* some index k they agree before k and either v ends at k and w does not,
\* or both have an element at k and v's is the smaller.
LexLess(v, w) ==
    \E k \in 0..Min(v.size, w.size) :
        /\ SameValueUpTo(v, w, k)
        /\ \/ k = v.size /\ k < w.size
           \/ k < v.size /\ k < w.size /\ Elem(v, k) < Elem(w, k)

\* C18: a < b is the lexicographic order of the live elements, and
\* a > b iff b < a, a <= b iff not (b < a), a >= b iff not (a < b).
C18_LexicographicOrder ==
    /\ last.op = "Less" => (last.res <=> LexLess(last.pre, last.arg))
    /\ last.op = "Greater" => (last.res <=> LexLess(last.arg, last.pre))
    /\ last.op = "LessEqual" => (last.res <=> ~LexLess(last.arg, last.pre))
    /\ last.op = "GreaterEqual" => (last.res <=> ~LexLess(last.pre, last.arg))

\* C19: in every call made with its preconditions satisfied, every slot
\* read or written through a block has an index below the number of slots
\* allocated for that block.
C19_AccessWithinBlock == ~last.oob

\* C20: every call of Fill made by Resize satisfies Fill's assertion
\* first < last, Resize(0) and Resize on an empty vector included.
C20_FillAssertHolds == last.op = "Resize" => ~last.fillBad

====
